---- MODULE Spec2Model ----
(***************************************************************************)
(* etl::function_wrapper (include/etl/function_wrapper.h): the three       *)
(* specialisations                                                         *)
(*   function_wrapper<TReturn(TParameters...)>                 "free"      *)
(*   function_wrapper<TReturn(TObject&, TParameters...)>       "method"    *)
(*   function_wrapper<TReturn(const TObject&, TParameters...)> "const_method" *)
(* as a state machine over a few wrapper objects, the callables and        *)
(* receivers they refer to, and the outcome of the last operation.         *)
(*                                                                         *)
(* Pointers are numbers: 0 is ETL_NULLPTR, 11.. are the addresses of free  *)
(* functions, 21.. the addresses of objects (functor instances, receivers),*)
(* 31.. the addresses of the stub functions, 1.. the pointers to member.   *)
(***************************************************************************)
EXTENDS Integers, Sequences, FiniteSets, TLC

\* ---------------------------------------------------------------- bounds
MaxArg      == 2        \* the single int parameter ranges over 1..MaxArg
MaxTotal    == 2        \* an object's counter stays within 0..MaxTotal

\* ------------------------------------------------------------- constants
ETL_NULLPTR == 0

function_stub_ptr     == 31
lambda_stub_ptr       == 32
const_lambda_stub_ptr == 33
method_stub_ptr       == 34
const_method_stub_ptr == 35

Slots      == {1, 2}            \* two wrappers: no operation involves more
Args       == 1..MaxArg
Totals     == 0..MaxTotal
FuncPtrs   == {11, 12}          \* two free functions of type TReturn(int)
ObjAddrs   == {21, 22}          \* two instances of one class
MethodPtrs == {1, 2}            \* two members of that class, per constness
AltValues  == {7, 8}            \* substitute values handed to the free call_or
Garbage    == {0, 9}            \* values an undefined call may hand back
Shapes     == {"free", "method", "const_method"}
Policies   == {"raise", "halt", "log"}

VARIABLES
  shape,      \* which specialisation the signature selects
  TReturn,    \* "void" or "int": the instantiated return type
  policy,     \* what the error facility does with a reported condition
  wrapper,    \* Slots -> invocation_element : the wrappers' records
  binding,    \* Slots -> what each wrapper was last bound to (history)
  heap,       \* ObjAddrs -> counter : the referenced objects' state
  direct,     \* ObjAddrs -> counter : the same objects under direct calls only
  last,       \* the last operation and everything it did
  status      \* "running", "halted" (error facility) or "crashed"

vars == <<shape, TReturn, policy, wrapper, binding, heap, direct, last, status>>

\* ------------------------------------------------------ return encodings
NoRet        == [tag |-> "none", val |-> 0]       \* the call did not return
VoidRet      == [tag |-> "void", val |-> 0]
Value(v)     == [tag |-> "value", val |-> v]
BoolRet(b)   == [tag |-> "bool", val |-> IF b THEN 1 ELSE 0]
OptEmpty     == [tag |-> "optional_empty", val |-> 0]
OptValue(v)  == [tag |-> "optional", val |-> v]

\* What a callable of return type TReturn hands back for a computed value.
Ret(v) == IF TReturn = "void" THEN VoidRet ELSE Value(v)

Event(kind, id, obj, arg) == [kind |-> kind, id |-> id, obj |-> obj, arg |-> arg]

Out(ret, trace, h, reports, raised, st) ==
  [ret |-> ret, trace |-> trace, heap |-> h, reports |-> reports,
   raised |-> raised, status |-> st]

\* A call through a null stub or a null target is undefined: the build may
\* trap, or carry on with whatever is left in the return register.
Undefined(kind, a, h) ==
  {Out(NoRet, <<Event(kind, 0, 0, a)>>, h, 0, FALSE, "crashed")} \cup
  {Out(Ret(g), <<Event(kind, 0, 0, a)>>, h, 0, FALSE, "running") : g \in Garbage}

\* ------------------------------------------------- the referenced callables
\* Free functions: 11 is square, every other one is twice.
FuncBody(f, a) == IF f = 11 THEN a * a ELSE a + a

\* The functor class: operator()(int) adds to the counter and returns it,
\* operator()(int) const returns counter * a and changes nothing.
FunctorBody(h, p, a) ==
  [heap |-> [h EXCEPT ![p] = h[p] + a], ret |-> h[p] + a]

ConstFunctorBody(h, p, a) == [heap |-> h, ret |-> h[p] * a]

\* Members: 1 adds and returns the new counter, every other one stores the
\* argument and returns the old counter.
MethodBody(m, h, r, a) ==
  IF m = 1 THEN [heap |-> [h EXCEPT ![r] = h[r] + a], ret |-> h[r] + a]
           ELSE [heap |-> [h EXCEPT ![r] = a], ret |-> h[r]]

\* Const members: 1 returns counter + a, every other one counter * a.
ConstMethodBody(m, h, r, a) ==
  [heap |-> h, ret |-> IF m = 1 THEN h[r] + a ELSE h[r] * a]

\* The fallback callable handed to the method wrappers' call_or.
AltBody(a) == a + 10

\* =========================================================================
\* function_wrapper<TReturn(TParameters...)> : free functions, lambdas, functors
\* =========================================================================

\* union alternate_method_t { void* object; function_type func; } : one cell
\* of storage; both members read the bits last stored (pointers of one size).
alternate_method_t_default == [object |-> ETL_NULLPTR, func |-> ETL_NULLPTR]

alternate_method_t_object(object_) == [object |-> object_, func |-> object_]

alternate_method_t_func(func_) == [object |-> func_, func |-> func_]

\* invocation_element() = default : alternate(), stub = ETL_NULLPTR
free_invocation_default ==
  [alternate |-> alternate_method_t_default, stub |-> ETL_NULLPTR]

\* Variant: the constructor sets the stub and leaves the payload defaulted.
free_invocation_object_no_payload(object_, stub_) ==
  [alternate |-> alternate_method_t_default, stub |-> stub_]

\* invocation_element(void* object_, stub_type stub_)
free_invocation_object(object_, stub_) ==
  [alternate |-> alternate_method_t_object(object_), stub |-> stub_]

\* invocation_element(function_type func_, stub_type stub_)
free_invocation_func(func_, stub_) ==
  [alternate |-> alternate_method_t_func(func_), stub |-> stub_]

\* Variant: the function constructor selects the lambda stub.
free_from_function_wrong_stub(function_) ==
  [alternate |-> alternate_method_t_func(function_), stub |-> lambda_stub_ptr]

\* function_wrapper(function_type function_)
free_from_function(function_) ==
  free_invocation_func(function_, function_stub_ptr)

\* function_wrapper(TLambda& instance_)
free_from_lambda(instance_) ==
  free_invocation_object(instance_, lambda_stub_ptr)

\* function_wrapper(const TLambda& instance_)
free_from_const_lambda(instance_) ==
  free_invocation_object(instance_, const_lambda_stub_ptr)

\* Variant: validity read off the payload instead of the stub.
free_is_valid_payload(w) == w.alternate.object # ETL_NULLPTR

free_is_valid(w) == w.stub # ETL_NULLPTR

free_operator_bool(w) == free_is_valid(w)

\* Variant: records compare by stub alone.
free_invocation_eq_stub_only(lhs, rhs) == lhs.stub = rhs.stub

\* invocation_element::operator==
free_invocation_eq(lhs, rhs) ==
  /\ lhs.stub = rhs.stub
  /\ \/ lhs.stub = ETL_NULLPTR
     \/ (lhs.stub = function_stub_ptr /\ rhs.alternate.func = lhs.alternate.func)
     \/ rhs.alternate.object = lhs.alternate.object

free_invocation_ne(lhs, rhs) == ~free_invocation_eq(lhs, rhs)

\* static TReturn function_stub(const invocation_element&, TParameters...)
function_stub(invocation, a, h) ==
  LET f == invocation.alternate.func IN
  IF f \in FuncPtrs
    THEN {Out(Ret(FuncBody(f, a)), <<Event("func", f, 0, a)>>, h, 0, FALSE, "running")}
    ELSE Undefined("null_target", a, h)

\* Variant: the stub calls a copy of the functor, not the functor.
lambda_stub_on_copy(invocation, a, h) ==
  LET p == invocation.alternate.object IN
  IF p \in ObjAddrs
    THEN {Out(Ret(FunctorBody(h, p, a).ret), <<Event("functor", 0, p, a)>>, h,
              0, FALSE, "running")}
    ELSE Undefined("null_target", a, h)

\* static TReturn lambda_stub<TLambda>(const invocation_element&, TParameters...)
lambda_stub(invocation, a, h) ==
  LET p == invocation.alternate.object IN
  IF p \in ObjAddrs
    THEN LET c == FunctorBody(h, p, a) IN
         {Out(Ret(c.ret), <<Event("functor", 0, p, a)>>, c.heap, 0, FALSE, "running")}
    ELSE Undefined("null_target", a, h)

\* static TReturn const_lambda_stub<TLambda>(const invocation_element&, TParameters...)
const_lambda_stub(invocation, a, h) ==
  LET p == invocation.alternate.object IN
  IF p \in ObjAddrs
    THEN LET c == ConstFunctorBody(h, p, a) IN
         {Out(Ret(c.ret), <<Event("const_functor", 0, p, a)>>, c.heap, 0, FALSE, "running")}
    ELSE Undefined("null_target", a, h)

\* (*invocation.stub)(invocation, params...) : the indirect call
free_dispatch(stub, invocation, a, h) ==
  CASE stub = function_stub_ptr     -> function_stub(invocation, a, h)
    [] stub = lambda_stub_ptr       -> lambda_stub(invocation, a, h)
    [] stub = const_lambda_stub_ptr -> const_lambda_stub(invocation, a, h)
    [] OTHER                        -> Undefined("null_stub", a, h)

\* TReturn operator()(TParameters... params) const : no validity check
free_call(w, a, h) == free_dispatch(w.stub, w, a, h)

\* call_if, call_or below: the source spells the inner call
\* operator()(TParameters... params); it is read as operator()(params...),
\* the call the method specialisations make at the same place.

\* call_if, TReturn void: bool
free_call_if_void(w, a, h) ==
  IF free_is_valid(w)
    THEN {[o EXCEPT !.ret = IF o.status = "running" THEN BoolRet(TRUE) ELSE NoRet] :
            o \in free_call(w, a, h)}
    ELSE {Out(BoolRet(FALSE), <<>>, h, 0, FALSE, "running")}

\* call_if, TReturn not void: etl::optional<TRet>
free_call_if_value(w, a, h) ==
  IF free_is_valid(w)
    THEN {[o EXCEPT !.ret = IF o.status = "running" THEN OptValue(o.ret.val) ELSE NoRet] :
            o \in free_call(w, a, h)}
    ELSE {Out(OptEmpty, <<>>, h, 0, FALSE, "running")}

\* Variant: the two branches exchanged.
free_call_or_swapped(w, alternative, a, h) ==
  IF free_is_valid(w)
    THEN {Out(Value(alternative), <<>>, h, 0, FALSE, "running")}
    ELSE free_call(w, a, h)

\* call_or, TReturn not void: the alternative is a substitute value
free_call_or(w, alternative, a, h) ==
  IF free_is_valid(w)
    THEN free_call(w, a, h)
    ELSE {Out(Value(alternative), <<>>, h, 0, FALSE, "running")}

\* =========================================================================
\* The error facility: ETL_ASSERT(condition, ETL_ERROR(...)).  A failed
\* assertion reports the condition once; then the configured policy raises
\* it as an exception, halts the program, or logs it and lets the caller's
\* next statement run.
\* =========================================================================
ETL_ASSERT(condition, h, continue) ==
  IF condition
    THEN continue
    ELSE CASE policy = "raise" -> {Out(NoRet, <<>>, h, 1, TRUE, "running")}
           [] policy = "halt"  -> {Out(NoRet, <<>>, h, 1, FALSE, "halted")}
           [] OTHER            -> {[o EXCEPT !.reports = 1] : o \in continue}

\* =========================================================================
\* function_wrapper<TReturn(TObject&, TParameters...)> : mutable members
\* =========================================================================

\* invocation_element() = default : method = ETL_NULLPTR, stub = ETL_NULLPTR
method_invocation_default == [method |-> ETL_NULLPTR, stub |-> ETL_NULLPTR]

\* invocation_element(method_type method_, stub_type stub_)
method_invocation(method_, stub_) == [method |-> method_, stub |-> stub_]

\* function_wrapper(method_type method_)
method_from_method(method_) == method_invocation(method_, method_stub_ptr)

method_is_valid(w) == w.stub # ETL_NULLPTR

method_operator_bool(w) == method_is_valid(w)

\* invocation_element::operator==
method_invocation_eq(lhs, rhs) == rhs.method = lhs.method /\ rhs.stub = lhs.stub

method_invocation_ne(lhs, rhs) == ~method_invocation_eq(lhs, rhs)

\* Variant: the stub acts on one remembered object, not the receiver passed in.
method_stub_remembered_object(object, method, a, h) ==
  IF method \in MethodPtrs
    THEN LET c == MethodBody(method, h, 21, a) IN
         {Out(Ret(c.ret), <<Event("method", method, 21, a)>>, c.heap, 0, FALSE, "running")}
    ELSE Undefined("null_target", a, h)

\* static TReturn method_stub(TObject& object, method_type method, TParameters...)
method_stub(object, method, a, h) ==
  IF method \in MethodPtrs
    THEN LET c == MethodBody(method, h, object, a) IN
         {Out(Ret(c.ret), <<Event("method", method, object, a)>>, c.heap, 0, FALSE, "running")}
    ELSE Undefined("null_target", a, h)

\* (*invocation.stub)(object, invocation.method, params...)
method_dispatch(stub, object, method, a, h) ==
  IF stub = method_stub_ptr
    THEN method_stub(object, method, a, h)
    ELSE Undefined("null_stub", a, h)

\* Variant: operator() dispatches without the assertion.
method_call_unchecked(w, object, a, h) ==
  method_dispatch(w.stub, object, w.method, a, h)

\* TReturn operator()(TObject& object, TParameters... params) const
method_call(w, object, a, h) ==
  ETL_ASSERT(method_is_valid(w), h, method_dispatch(w.stub, object, w.method, a, h))

\* Variant: no validity test before the call.
method_call_if_void_unguarded(w, object, a, h) ==
  {[o EXCEPT !.ret = IF o.status = "running" /\ ~o.raised THEN BoolRet(TRUE) ELSE NoRet] :
     o \in method_call(w, object, a, h)}

\* call_if, TReturn void: bool
method_call_if_void(w, object, a, h) ==
  IF method_is_valid(w)
    THEN {[o EXCEPT !.ret = IF o.status = "running" /\ ~o.raised THEN BoolRet(TRUE) ELSE NoRet] :
            o \in method_call(w, object, a, h)}
    ELSE {Out(BoolRet(FALSE), <<>>, h, 0, FALSE, "running")}

\* call_if, TReturn not void: etl::optional<TRet>
method_call_if_value(w, object, a, h) ==
  IF method_is_valid(w)
    THEN {[o EXCEPT !.ret = IF o.status = "running" /\ ~o.raised
                              THEN OptValue(o.ret.val) ELSE NoRet] :
            o \in method_call(w, object, a, h)}
    ELSE {Out(OptEmpty, <<>>, h, 0, FALSE, "running")}

\* Variant: no validity test, the member is always called.
method_call_or_unguarded(w, object, a, h) == method_call(w, object, a, h)

\* call_or, both overloads: the alternative is a callable taking the
\* parameters without the receiver
method_call_or(w, object, a, h) ==
  IF method_is_valid(w)
    THEN method_call(w, object, a, h)
    ELSE {Out(Ret(AltBody(a)), <<Event("alternative", 0, 0, a)>>, h, 0, FALSE, "running")}

\* =========================================================================
\* function_wrapper<TReturn(const TObject&, TParameters...)> : const members
\* =========================================================================

const_invocation_default == [const_method |-> ETL_NULLPTR, const_stub |-> ETL_NULLPTR]

\* invocation_element(const_method_type method_, const_stub_type stub_)
const_invocation(method_, stub_) == [const_method |-> method_, const_stub |-> stub_]

\* function_wrapper(const_method_type const_method_)
const_from_method(const_method_) == const_invocation(const_method_, const_method_stub_ptr)

const_is_valid(w) == w.const_stub # ETL_NULLPTR

const_operator_bool(w) == const_is_valid(w)

\* invocation_element::operator==
const_invocation_eq(lhs, rhs) ==
  rhs.const_method = lhs.const_method /\ rhs.const_stub = lhs.const_stub

const_invocation_ne(lhs, rhs) == ~const_invocation_eq(lhs, rhs)

\* static TReturn const_method_stub(const TObject&, const_method_type, TParameters...)
const_method_stub(object, const_method, a, h) ==
  IF const_method \in MethodPtrs
    THEN LET c == ConstMethodBody(const_method, h, object, a) IN
         {Out(Ret(c.ret), <<Event("const_method", const_method, object, a)>>, c.heap,
              0, FALSE, "running")}
    ELSE Undefined("null_target", a, h)

\* (*invocation.const_stub)(object, invocation.const_method, params...)
const_dispatch(const_stub, object, const_method, a, h) ==
  IF const_stub = const_method_stub_ptr
    THEN const_method_stub(object, const_method, a, h)
    ELSE Undefined("null_stub", a, h)

\* TReturn operator()(const TObject& object, TParameters... params) const
const_call(w, object, a, h) ==
  ETL_ASSERT(const_is_valid(w), h, const_dispatch(w.const_stub, object, w.const_method, a, h))

const_call_if_void(w, object, a, h) ==
  IF const_is_valid(w)
    THEN {[o EXCEPT !.ret = IF o.status = "running" /\ ~o.raised THEN BoolRet(TRUE) ELSE NoRet] :
            o \in const_call(w, object, a, h)}
    ELSE {Out(BoolRet(FALSE), <<>>, h, 0, FALSE, "running")}

\* Variant: no validity test before the call.
const_call_if_value_unguarded(w, object, a, h) ==
  {[o EXCEPT !.ret = IF o.status = "running" /\ ~o.raised
                       THEN OptValue(o.ret.val) ELSE NoRet] :
     o \in const_call(w, object, a, h)}

const_call_if_value(w, object, a, h) ==
  IF const_is_valid(w)
    THEN {[o EXCEPT !.ret = IF o.status = "running" /\ ~o.raised
                              THEN OptValue(o.ret.val) ELSE NoRet] :
            o \in const_call(w, object, a, h)}
    ELSE {Out(OptEmpty, <<>>, h, 0, FALSE, "running")}

const_call_or(w, object, a, h) ==
  IF const_is_valid(w)
    THEN const_call(w, object, a, h)
    ELSE {Out(Ret(AltBody(a)), <<Event("alternative", 0, 0, a)>>, h, 0, FALSE, "running")}

\* =========================================================================
\* The program: wrappers of the instantiated specialisation being constructed,
\* assigned, compared and called.
\* =========================================================================

\* function_wrapper() = default, per specialisation
DefaultWrapper ==
  CASE shape = "free"   -> free_invocation_default
    [] shape = "method" -> method_invocation_default
    [] OTHER            -> const_invocation_default

\* is_valid(), per specialisation
IsValid(w) ==
  CASE shape = "free"   -> free_is_valid(w)
    [] shape = "method" -> method_is_valid(w)
    [] OTHER            -> const_is_valid(w)

\* operator bool(), per specialisation
OperatorBool(w) ==
  CASE shape = "free"   -> free_operator_bool(w)
    [] shape = "method" -> method_operator_bool(w)
    [] OTHER            -> const_operator_bool(w)

\* function_wrapper::operator==, per specialisation: invocation == rhs.invocation
OperatorEq(lhs, rhs) ==
  CASE shape = "free"   -> free_invocation_eq(lhs, rhs)
    [] shape = "method" -> method_invocation_eq(lhs, rhs)
    [] OTHER            -> const_invocation_eq(lhs, rhs)

\* function_wrapper::operator!=, per specialisation: invocation != rhs.invocation
OperatorNe(lhs, rhs) ==
  CASE shape = "free"   -> free_invocation_ne(lhs, rhs)
    [] shape = "method" -> method_invocation_ne(lhs, rhs)
    [] OTHER            -> const_invocation_ne(lhs, rhs)

\* Variant: the copy takes the stub and leaves the payload as constructed.
CopyOf_stub_only(other) ==
  CASE shape = "free"   -> [free_invocation_default EXCEPT !.stub = other.stub]
    [] shape = "method" -> [method_invocation_default EXCEPT !.stub = other.stub]
    [] OTHER            -> [const_invocation_default EXCEPT !.const_stub = other.const_stub]

\* Variant: the copy takes the payload and leaves the stub null.
CopyOf_payload_only(other) ==
  IF shape = "const_method" THEN [other EXCEPT !.const_stub = ETL_NULLPTR]
                            ELSE [other EXCEPT !.stub = ETL_NULLPTR]

\* function_wrapper& operator=(const function_wrapper& other) = default, and
\* the copy constructor: the record is copied member by member.
CopyOf(other) == other

\* ------------------------------------------------------------- history
NoBinding == [kind |-> "none", target |-> 0]

Bound(kind, target) == [kind |-> kind, target |-> target]

\* What calling the callable b names directly, on receiver r with argument
\* a, does to the objects d and returns; NoRet where b names nothing callable.
DirectInvoke(b, r, a, d) ==
  CASE b.kind = "func" /\ b.target \in FuncPtrs ->
         [heap |-> d, ret |-> Ret(FuncBody(b.target, a))]
    [] b.kind = "lambda" ->
         [heap |-> FunctorBody(d, b.target, a).heap,
          ret |-> Ret(FunctorBody(d, b.target, a).ret)]
    [] b.kind = "const_lambda" ->
         [heap |-> d, ret |-> Ret(ConstFunctorBody(d, b.target, a).ret)]
    [] b.kind = "method" /\ b.target \in MethodPtrs ->
         [heap |-> MethodBody(b.target, d, r, a).heap,
          ret |-> Ret(MethodBody(b.target, d, r, a).ret)]
    [] b.kind = "const_method" /\ b.target \in MethodPtrs ->
         [heap |-> d, ret |-> Ret(ConstMethodBody(b.target, d, r, a).ret)]
    [] OTHER -> [heap |-> d, ret |-> NoRet]

LastRec(op, s, t, r, a, alt, ret, ne, trace, reports, raised, expect) ==
  [op |-> op, slot |-> s, other |-> t, recv |-> r, arg |-> a, alt |-> alt,
   ret |-> ret, ne |-> ne, trace |-> trace, reports |-> reports,
   raised |-> raised, expect |-> expect, replaced |-> FALSE]

Quiet(op, s, t) == LastRec(op, s, t, 0, 0, 0, NoRet, FALSE, <<>>, 0, FALSE, NoRet)

InBounds(h) == \A p \in ObjAddrs : h[p] \in Totals

Init ==
  /\ shape \in Shapes
  /\ TReturn \in {"void", "int"}
  \* the free specialisation contains no ETL_ASSERT: one policy stands for all
  /\ policy \in (IF shape = "free" THEN {"raise"} ELSE Policies)
  /\ wrapper = [s \in Slots |-> DefaultWrapper]
  /\ binding = [s \in Slots |-> NoBinding]
  /\ heap = [p \in ObjAddrs |-> 0]
  /\ direct = [p \in ObjAddrs |-> 0]
  /\ last = Quiet("init", 0, 0)
  /\ status = "running"

\* A call on wrapper s finished with outcome o; the history records what a
\* direct call of the callable s was bound to would have done.
Called(op, s, r, a, alt, o) ==
  LET e == DirectInvoke(binding[s], r, a, direct) IN
  /\ InBounds(o.heap)
  /\ heap' = o.heap
  /\ direct' = e.heap
  /\ status' = o.status
  /\ last' = LastRec(op, s, 0, r, a, alt, o.ret, FALSE, o.trace, o.reports, o.raised, e.ret)
  /\ UNCHANGED <<shape, TReturn, policy, wrapper, binding>>

\* Slot s receives record w, bound as b; the history notes whether that
\* replaced a binding to some other callable.
Rebound(op, s, t, w, b) ==
  /\ wrapper' = [wrapper EXCEPT ![s] = w]
  /\ binding' = [binding EXCEPT ![s] = b]
  /\ last' = [Quiet(op, s, t) EXCEPT
                !.replaced = (binding[s].kind # "none" /\ b.kind # "none" /\ binding[s] # b)]
  /\ UNCHANGED <<shape, TReturn, policy, heap, direct, status>>

\* w = function_wrapper();
AssignDefault(s) ==
  /\ status = "running"
  /\ Rebound("assign_default", s, 0, CopyOf(DefaultWrapper), NoBinding)

\* w = other;  (also function_wrapper w(other);)
Assign(s, t) ==
  /\ status = "running"
  /\ Rebound("assign", s, t, CopyOf(wrapper[t]), binding[t])

\* w == other, w != other
Compare(s, t) ==
  /\ status = "running"
  /\ last' = LastRec("compare", s, t, 0, 0, 0, BoolRet(OperatorEq(wrapper[s], wrapper[t])),
                     OperatorNe(wrapper[s], wrapper[t]), <<>>, 0, FALSE, NoRet)
  /\ UNCHANGED <<shape, TReturn, policy, wrapper, binding, heap, direct, status>>

\* g(a) / object.add(a) called directly, not through any wrapper
DirectCall(p, a) ==
  /\ status = "running"
  /\ InBounds(FunctorBody(heap, p, a).heap)
  /\ heap' = FunctorBody(heap, p, a).heap
  /\ direct' = FunctorBody(direct, p, a).heap
  /\ last' = LastRec("direct", 0, 0, p, a, 0, Ret(FunctorBody(heap, p, a).ret), FALSE,
                     <<Event("functor", 0, p, a)>>, 0, FALSE, NoRet)
  /\ UNCHANGED <<shape, TReturn, policy, wrapper, binding, status>>

\* ------------------------------------------------------------ free shape
\* A bind puts a wrapper newly constructed from the callable in the slot.
F_BindFunction(s, f) ==
  /\ status = "running" /\ shape = "free"
  /\ Rebound("bind", s, 0, free_from_function(f), Bound("func", f))

F_BindLambda(s, p) ==
  /\ status = "running" /\ shape = "free"
  /\ Rebound("bind", s, 0, free_from_lambda(p), Bound("lambda", p))

F_BindConstLambda(s, p) ==
  /\ status = "running" /\ shape = "free"
  /\ Rebound("bind", s, 0, free_from_const_lambda(p), Bound("const_lambda", p))

F_Call(s, a) ==
  /\ status = "running" /\ shape = "free"
  /\ \E o \in free_call(wrapper[s], a, heap) : Called("call", s, 0, a, 0, o)

F_CallIf(s, a) ==
  /\ status = "running" /\ shape = "free"
  /\ \E o \in (IF TReturn = "void" THEN free_call_if_void(wrapper[s], a, heap)
                                   ELSE free_call_if_value(wrapper[s], a, heap)) :
       Called("call_if", s, 0, a, 0, o)

F_CallOr(s, alt, a) ==
  /\ status = "running" /\ shape = "free" /\ TReturn # "void"
  /\ \E o \in free_call_or(wrapper[s], alt, a, heap) : Called("call_or", s, 0, a, alt, o)

\* ---------------------------------------------------------- method shape
M_Bind(s, m) ==
  /\ status = "running" /\ shape = "method"
  /\ Rebound("bind", s, 0, method_from_method(m), Bound("method", m))

M_Call(s, r, a) ==
  /\ status = "running" /\ shape = "method"
  /\ \E o \in method_call(wrapper[s], r, a, heap) : Called("call", s, r, a, 0, o)

M_CallIf(s, r, a) ==
  /\ status = "running" /\ shape = "method"
  /\ \E o \in (IF TReturn = "void" THEN method_call_if_void(wrapper[s], r, a, heap)
                                   ELSE method_call_if_value(wrapper[s], r, a, heap)) :
       Called("call_if", s, r, a, 0, o)

M_CallOr(s, r, a) ==
  /\ status = "running" /\ shape = "method"
  /\ \E o \in method_call_or(wrapper[s], r, a, heap) : Called("call_or", s, r, a, 0, o)

\* ---------------------------------------------------- const_method shape
C_Bind(s, m) ==
  /\ status = "running" /\ shape = "const_method"
  /\ Rebound("bind", s, 0, const_from_method(m), Bound("const_method", m))

C_Call(s, r, a) ==
  /\ status = "running" /\ shape = "const_method"
  /\ \E o \in const_call(wrapper[s], r, a, heap) : Called("call", s, r, a, 0, o)

C_CallIf(s, r, a) ==
  /\ status = "running" /\ shape = "const_method"
  /\ \E o \in (IF TReturn = "void" THEN const_call_if_void(wrapper[s], r, a, heap)
                                   ELSE const_call_if_value(wrapper[s], r, a, heap)) :
       Called("call_if", s, r, a, 0, o)

C_CallOr(s, r, a) ==
  /\ status = "running" /\ shape = "const_method"
  /\ \E o \in const_call_or(wrapper[s], r, a, heap) : Called("call_or", s, r, a, 0, o)

NextCommon ==
  \/ \E s \in Slots : AssignDefault(s)
  \/ \E s \in Slots, t \in Slots : Assign(s, t)
  \/ \E s \in Slots, t \in Slots : Compare(s, t)
  \/ \E p \in ObjAddrs, a \in Args : DirectCall(p, a)

NextFreeOnly ==
  \/ \E s \in Slots, f \in FuncPtrs \cup {ETL_NULLPTR} : F_BindFunction(s, f)
  \/ \E s \in Slots, p \in ObjAddrs : F_BindLambda(s, p)
  \/ \E s \in Slots, p \in ObjAddrs : F_BindConstLambda(s, p)
  \/ \E s \in Slots, a \in Args : F_Call(s, a)
  \/ \E s \in Slots, a \in Args : F_CallIf(s, a)
  \/ \E s \in Slots, alt \in AltValues, a \in Args : F_CallOr(s, alt, a)

NextMethodsOnly ==
  \/ \E s \in Slots, m \in MethodPtrs \cup {ETL_NULLPTR} : M_Bind(s, m)
  \/ \E s \in Slots, r \in ObjAddrs, a \in Args : M_Call(s, r, a)
  \/ \E s \in Slots, r \in ObjAddrs, a \in Args : M_CallIf(s, r, a)
  \/ \E s \in Slots, r \in ObjAddrs, a \in Args : M_CallOr(s, r, a)
  \/ \E s \in Slots, m \in MethodPtrs \cup {ETL_NULLPTR} : C_Bind(s, m)
  \/ \E s \in Slots, r \in ObjAddrs, a \in Args : C_Call(s, r, a)
  \/ \E s \in Slots, r \in ObjAddrs, a \in Args : C_CallIf(s, r, a)
  \/ \E s \in Slots, r \in ObjAddrs, a \in Args : C_CallOr(s, r, a)

NextFree == NextCommon \/ NextFreeOnly

NextMethods == NextCommon \/ NextMethodsOnly

Next == NextCommon \/ NextFreeOnly \/ NextMethodsOnly

\* All three specialisations.
Spec == Init /\ [][Next]_vars

\* The free-callable specialisation alone.
InitFree == Init /\ shape = "free"

SpecFree == InitFree /\ [][NextFree]_vars

\* The two member-function specialisations alone.
InitMethods == Init /\ shape # "free"

SpecMethods == InitMethods /\ [][NextMethods]_vars

TypeOK ==
  /\ shape \in Shapes
  /\ policy \in Policies
  /\ status \in {"running", "halted", "crashed"}
  /\ InBounds(heap)

\* =========================================================================
\* Properties
\* =========================================================================

\* The stub member of a record, whatever the specialisation calls it.
StubOf(w) == IF shape = "const_method" THEN w.const_stub ELSE w.stub

\* The wrapper was bound by a constructor taking a callable (history).
IsBound(s) == binding[s].kind # "none"

\* ... and that callable exists: a function, an object or a member, not null.
HasTarget(s) ==
  \/ binding[s].kind = "func" /\ binding[s].target \in FuncPtrs
  \/ binding[s].kind \in {"lambda", "const_lambda"} /\ binding[s].target \in ObjAddrs
  \/ binding[s].kind \in {"method", "const_method"} /\ binding[s].target \in MethodPtrs

\* The one call a wrapper bound as b makes for (receiver r, argument a).
TargetEvent(b, r, a) ==
  CASE b.kind = "func"         -> Event("func", b.target, 0, a)
    [] b.kind = "lambda"       -> Event("functor", 0, b.target, a)
    [] b.kind = "const_lambda" -> Event("const_functor", 0, b.target, a)
    [] b.kind = "method"       -> Event("method", b.target, r, a)
    [] OTHER                   -> Event("const_method", b.target, r, a)

LastTargetEvent == TargetEvent(binding[last.slot], last.recv, last.arg)

\* C1: for each of the three wrapper kinds, in every reachable state
\* is_valid() and operator bool() agree, and both are true exactly when the
\* stub is non-null, which is exactly when the wrapper has been bound; a
\* default-constructed wrapper reports false for both.
C1_ValidIffBound ==
  \A s \in Slots :
    /\ IsValid(wrapper[s]) = OperatorBool(wrapper[s])
    /\ IsValid(wrapper[s]) = (StubOf(wrapper[s]) # ETL_NULLPTR)
    /\ IsValid(wrapper[s]) = IsBound(s)
    /\ (wrapper[s] = DefaultWrapper => ~IsValid(wrapper[s]) /\ ~OperatorBool(wrapper[s]))

\* One wrapper bound and valid beside a default-constructed one, after a bind.
C1_Witness ==
  /\ shape = "const_method"
  /\ last.op = "bind"
  /\ \E s \in Slots, t \in Slots :
       /\ IsBound(s) /\ IsValid(wrapper[s]) /\ OperatorBool(wrapper[s])
       /\ wrapper[t] = DefaultWrapper /\ ~IsValid(wrapper[t])

\* C2: a valid wrapper stays valid across every operator(), call_if, call_or,
\* comparison, copy taken from it and assignment from a bound wrapper; the
\* only step after which a valid wrapper is no longer valid is an assignment
\* to it from a wrapper that is not valid (a default-constructed one).
C2_StaysBound ==
  [][\A s \in Slots :
       (IsValid(wrapper[s]) /\ ~IsValid(wrapper'[s])) =>
          /\ last'.slot = s
          /\ \/ last'.op = "assign_default"
             \/ last'.op = "assign" /\ ~IsValid(wrapper[last'.other])]_vars

\* A bound wrapper that has just been called and is still valid.
C2_Witness ==
  /\ last.op = "call"
  /\ last.trace # <<>>
  /\ IsBound(last.slot)
  /\ IsValid(wrapper[last.slot])

\* C3: a free-callable wrapper constructed from the pointer to a free function
\* f returns from operator()(a) exactly what f(a) returns, having called f
\* exactly once with a unchanged.
C3_FreeFunctionCall ==
  (shape = "free" /\ last.op = "call" /\ binding[last.slot].kind = "func"
     /\ binding[last.slot].target \in FuncPtrs) =>
    /\ last.ret = Ret(FuncBody(binding[last.slot].target, last.arg))
    /\ last.trace = <<Event("func", binding[last.slot].target, 0, last.arg)>>
    /\ status = "running"
    /\ last.reports = 0

\* square bound, called with 2, returned 4.
C3_Witness ==
  /\ shape = "free" /\ TReturn = "int"
  /\ last.op = "call" /\ last.arg = 2
  /\ binding[last.slot] = Bound("func", 11)
  /\ last.ret = Value(4)

\* What a call, call_if or call_or that reached the bound target returns for
\* the direct call's result e.
Wrapped(op, e) ==
  IF op = "call_if"
    THEN (IF TReturn = "void" THEN BoolRet(TRUE) ELSE OptValue(e.val))
    ELSE e

\* C4: a free-callable wrapper bound to a functor instance g holds only g's
\* address: under any interleaving of direct calls on g and calls through the
\* wrapper and its copies, g's state is the state the same calls made directly
\* would leave, and every call through a wrapper returns what the direct call
\* returns, having called g itself once.
C4_FunctorShared ==
  shape = "free" =>
    /\ heap = direct
    /\ (last.op \in {"call", "call_if", "call_or"}
          /\ binding[last.slot].kind \in {"lambda", "const_lambda"}) =>
         /\ last.ret = Wrapped(last.op, last.expect)
         /\ last.trace = <<LastTargetEvent>>
         /\ status = "running"

\* Both wrappers refer to functor 21 (one is a copy of the other); calls have
\* driven its counter to the bound, the last of them through a wrapper.
C4_Witness ==
  /\ shape = "free"
  /\ binding[1] = Bound("lambda", 21) /\ binding[2] = Bound("lambda", 21)
  /\ last.op = "call" /\ last.slot = 2
  /\ heap[21] = MaxTotal

\* C5: for two free-callable records, operator== is true iff the stubs are
\* equal and (both stubs are null, or the shared stub is the free-function
\* stub and the function pointers are equal, or the object addresses are
\* equal), and operator!= is its negation; so two wrappers bound to the same
\* function pointer are equal, to distinct function pointers unequal, two
\* unbound wrappers are equal, and a bound wrapper never equals an unbound one.
C5_FreeEquality ==
  (shape = "free" /\ last.op = "compare") =>
    LET l  == wrapper[last.slot]
        r  == wrapper[last.other]
        bl == binding[last.slot]
        br == binding[last.other]
        eq == last.ret = BoolRet(TRUE)
    IN  /\ last.ret \in {BoolRet(TRUE), BoolRet(FALSE)}
        /\ eq <=> /\ l.stub = r.stub
                  /\ \/ (l.stub = ETL_NULLPTR /\ r.stub = ETL_NULLPTR)
                     \/ (l.stub = function_stub_ptr /\ l.alternate.func = r.alternate.func)
                     \/ l.alternate.object = r.alternate.object
        /\ last.ne = ~eq
        /\ (bl.kind = "func" /\ br.kind = "func") => (eq <=> bl.target = br.target)
        /\ (bl.kind = "none" /\ br.kind = "none") => eq
        /\ ((bl.kind = "none") # (br.kind = "none")) => ~eq

\* Two wrappers bound to the two functions compared, and came out unequal.
C5_Witness ==
  /\ shape = "free" /\ last.op = "compare"
  /\ binding[last.slot] = Bound("func", 11)
  /\ binding[last.other] = Bound("func", 12)
  /\ last.ret = BoolRet(FALSE) /\ last.ne

\* C6: two free-callable wrappers bound to two distinct functor instances
\* compare unequal, whatever the instances' state; two wrappers bound through
\* the same kind of reference to the same instance compare equal.
C6_FunctorIdentity ==
  (shape = "free" /\ last.op = "compare"
     /\ binding[last.slot].kind \in {"lambda", "const_lambda"}
     /\ binding[last.other].kind \in {"lambda", "const_lambda"}) =>
    /\ binding[last.slot].target # binding[last.other].target =>
         (last.ret = BoolRet(FALSE) /\ last.ne)
    /\ binding[last.slot] = binding[last.other] =>
         (last.ret = BoolRet(TRUE) /\ ~last.ne)

\* Two instances of one class in the same non-initial state, each bound to
\* one wrapper; the wrappers compared unequal.
C6_Witness ==
  /\ shape = "free" /\ last.op = "compare"
  /\ binding[last.slot] = Bound("lambda", 21)
  /\ binding[last.other] = Bound("lambda", 22)
  /\ heap[21] = heap[22] /\ heap[21] > 0
  /\ last.ret = BoolRet(FALSE)

C9_MethodCallOr ==
  (shape # "free" /\ last.op = "call_or") =>
    /\ ~IsBound(last.slot) =>
         /\ last.trace = <<Event("alternative", 0, 0, last.arg)>>
         /\ last.ret = Ret(AltBody(last.arg))
         /\ last.reports = 0 /\ status = "running"
         /\ heap = direct
    /\ (IsBound(last.slot) /\ HasTarget(last.slot)) =>
         /\ last.trace = <<LastTargetEvent>>
         /\ last.ret = last.expect
         /\ last.reports = 0 /\ status = "running"
         /\ heap = direct

\* An unbound mutable-method wrapper's call_or ran the alternative on 2.
C9_Witness ==
  /\ shape = "method" /\ TReturn = "int"
  /\ last.op = "call_or" /\ last.arg = 2
  /\ ~IsBound(last.slot)
  /\ last.ret = Value(AltBody(2))

\* C10: operator() on an unbound method wrapper (mutable or const) reports the
\* uninitialised condition exactly once and, under every policy of the error
\* facility, dispatches no stub, leaves the receiver uncalled and unmodified
\* and leaves the wrapper's record as it was.
C10_UnboundCallNoEffect ==
  (shape # "free" /\ last.op = "call" /\ ~IsBound(last.slot)) =>
    /\ last.reports = 1
    /\ last.trace = <<>>
    /\ heap = direct
    /\ wrapper[last.slot] = DefaultWrapper

\* The last operation made a call through a null stub.
NullStubDispatched == \E i \in 1..Len(last.trace) : last.trace[i].kind = "null_stub"

\* C11: call_if and call_or are safe on every wrapper kind in every reachable
\* state, bound or unbound: after any default constructions, bindings, copies
\* and assignments, neither dispatches through a null stub and neither has the
\* uninitialised condition reported.
C11_GuardedCallsSafe ==
  last.op \in {"call_if", "call_or"} =>
    /\ ~NullStubDispatched
    /\ last.reports = 0
    /\ ~last.raised
    /\ status # "halted"

\* call_if on an unbound method wrapper beside a bound one, under the policy
\* that logs and continues: nothing was called, nothing reported.
C11_Witness ==
  /\ shape = "method" /\ policy = "log"
  /\ last.op = "call_if"
  /\ ~IsBound(last.slot) /\ ~IsValid(wrapper[last.slot])
  /\ \E t \in Slots : IsBound(t)
  /\ last.trace = <<>>
  /\ status = "running"

\* The record a wrapper bound as b holds: the stub of b's kind with b's
\* target as payload, nothing else.
RecordBoundAs(b) ==
  CASE b.kind = "none"         -> DefaultWrapper
    [] b.kind = "func"         -> [alternate |-> [object |-> b.target, func |-> b.target],
                                   stub |-> function_stub_ptr]
    [] b.kind = "lambda"       -> [alternate |-> [object |-> b.target, func |-> b.target],
                                   stub |-> lambda_stub_ptr]
    [] b.kind = "const_lambda" -> [alternate |-> [object |-> b.target, func |-> b.target],
                                   stub |-> const_lambda_stub_ptr]
    [] b.kind = "method"       -> [method |-> b.target, stub |-> method_stub_ptr]
    [] OTHER                   -> [const_method |-> b.target,
                                   const_stub |-> const_method_stub_ptr]

\* C12: rebinding is atomic and complete.  After a wrapper bound to X is
\* assigned a wrapper bound to Y (or one constructed from Y) its whole record,
\* payload and stub together, is Y's: it compares equal to the source, two
\* wrappers compare equal only when bound alike (so unequal to one still bound
\* to X), every operator(), call_if and call_or on it calls Y and only Y, and
\* no wrapper ever holds the stub of one binding with the payload of another.
C12_RebindAtomic ==
  /\ \A s \in Slots : wrapper[s] = RecordBoundAs(binding[s])
  /\ last.op = "assign" =>
       /\ wrapper[last.slot] = wrapper[last.other]
       /\ OperatorEq(wrapper[last.slot], wrapper[last.other])
       /\ ~OperatorNe(wrapper[last.slot], wrapper[last.other])
  /\ last.op = "compare" =>
       ((last.ret = BoolRet(TRUE)) <=> (binding[last.slot] = binding[last.other]))
  /\ (last.op \in {"call", "call_if", "call_or"} /\ HasTarget(last.slot)) =>
       last.trace = <<LastTargetEvent>>

\* A wrapper bound to one functor was assigned a wrapper bound to the other.
C12_Witness ==
  /\ shape = "free"
  /\ last.op = "assign" /\ last.replaced
  /\ last.slot # last.other
  /\ binding[last.slot] = Bound("lambda", 22)
  /\ wrapper[last.slot] = wrapper[last.other]

\* The pointer-to-member a method wrapper's record holds.
MemberOf(w) == IF shape = "const_method" THEN w.const_method ELSE w.method

\* One step of a method wrapper, as C13 describes it.
C13_Step ==
  shape \in {"method", "const_method"} =>
    /\ \A s \in Slots :
         /\ DOMAIN wrapper'[s] = (IF shape = "method" THEN {"method", "stub"}
                                                      ELSE {"const_method", "const_stub"})
         /\ MemberOf(wrapper'[s]) \notin ObjAddrs
         /\ StubOf(wrapper'[s]) \notin ObjAddrs
    /\ last'.op \in {"call", "call_if", "call_or"} =>
         /\ wrapper' = wrapper
         /\ \A p \in ObjAddrs \ {last'.recv} : heap'[p] = heap[p]
         /\ HasTarget(last'.slot) =>
              /\ last'.trace = <<TargetEvent(binding[last'.slot], last'.recv, last'.arg)>>
              /\ heap' = DirectInvoke(binding[last'.slot], last'.recv, last'.arg, heap).heap
    /\ last'.op = "compare" =>
         /\ UNCHANGED <<wrapper, heap>>
         /\ (last'.ret = BoolRet(TRUE)) <=>
              /\ MemberOf(wrapper[last'.slot]) = MemberOf(wrapper[last'.other])
              /\ StubOf(wrapper[last'.slot]) = StubOf(wrapper[last'.other])

\* C13: a method wrapper stores only the pointer-to-member, never an object.
\* Every invocation acts on exactly the receiver supplied to that call and on
\* no other object, leaves the wrapper as it was, and equality of two method
\* wrappers depends only on pointer-to-member and stub, whatever receivers
\* they were called with before.
C13_ReceiverPerCall == [][C13_Step]_vars

\* The wrapper bound to add() has just been called on the second object, after
\* the first object had been added to as well: each carries its own total.
C13_Witness ==
  /\ shape = "method"
  /\ last.op = "call" /\ last.recv = 22 /\ last.arg = 1
  /\ binding[last.slot] = Bound("method", 1)
  /\ last.trace = <<Event("method", 1, 22, 1)>>
  /\ heap[21] = 2 /\ heap[22] = 1

\* C14: the uninitialized-invocation condition is reported by operator() of
\* the mutable-method and const-method wrappers on an unbound wrapper, and by
\* nothing else.  operator() of the free-callable wrapper makes no validity
\* check: on an unbound wrapper it reports nothing and dispatches through the
\* null stub.
C14_ReportedOnlyByMethodCall ==
  /\ last.reports \in {0, 1}
  /\ last.reports = 1 <=>
       (shape \in {"method", "const_method"} /\ last.op = "call" /\ ~IsBound(last.slot))
  /\ last.raised => last.reports = 1
  /\ status = "halted" => last.reports = 1
  /\ (shape = "free" /\ last.op = "call" /\ ~IsBound(last.slot)) =>
       last.trace = <<Event("null_stub", 0, 0, last.arg)>>

\* operator() of an unbound free-callable wrapper went through the null stub
\* and came back with whatever the register held; nothing was reported.
C14_Witness ==
  /\ shape = "free"
  /\ last.op = "call" /\ ~IsBound(last.slot)
  /\ last.reports = 0
  /\ NullStubDispatched
  /\ last.ret = Ret(9)
  /\ status = "running"

\* The target a wrapper's record stores: function pointer, functor address
\* or pointer-to-member.
StoredTarget(w) ==
  CASE shape = "free"   -> w.alternate.func
    [] shape = "method" -> w.method
    [] OTHER            -> w.const_method

\* The last operation made a call through a null target.
NullTargetCalled == \E i \in 1..Len(last.trace) : last.trace[i].kind = "null_target"

\* C15: in every reachable state of every wrapper kind, is_valid() implies
\* that the stored target is non-null, whatever value was passed to the
\* binding constructor (a null function pointer or null pointer-to-member
\* included); so a call_if or call_or that passes the is_valid() guard never
\* calls through a null target.
C15_ValidImpliesTarget ==
  /\ \A s \in Slots : IsValid(wrapper[s]) => StoredTarget(wrapper[s]) # ETL_NULLPTR
  /\ last.op \in {"call_if", "call_or"} => ~NullTargetCalled

====
